---- MODULE Spec2Model ----
(***************************************************************************)
(* State-machine model of the arbitrage agent: the in-memory stores of     *)
(* api/routes.py (products_db, prices_db, opportunities_db), the request   *)
(* handlers that change them, the scan coroutine scan_product with its two *)
(* suspension points (the two marketplace fetches of                       *)
(* TinyFishService.scrape_product) and the opportunity engine of           *)
(* services/arbitrage.py.                                                  *)
(*                                                                         *)
(* Scheduling: the handlers are coroutines on one asyncio event loop, so   *)
(* the code between two awaits is one atomic step.  Money is counted in    *)
(* cents.  An Optional value is a sequence of length 0 (None) or 1.        *)
(* call is the last call of a function of ArbitrageService made on its     *)
(* own (calculate_opportunity, or filter_opportunities by GET              *)
(* /opportunities): its arguments, its locals at the return, its result.   *)
(***************************************************************************)
EXTENDS Integers, Sequences, FiniteSets, TLC

VARIABLES products_db, prices_db, opportunities_db, tasks, deleting, now,
          next_id, appended, cfg, call

vars == <<products_db, prices_db, opportunities_db, tasks, deleting, now,
          next_id, appended, cfg, call>>

----------------------------------------------------------------------------
(* Bounds of the model *)

MaxProducts == 2
MaxTasks == 2
MaxDeleting == 1
MaxHistoryScans == 52
MaxClock == 2

(* Program constants *)

HistoryCap == 100
MinMarginThreshold == 5
AmazonSellerFeePct == 15

----------------------------------------------------------------------------
(* Optional values *)

None == <<>>
Some(x) == <<x>>
IsSome(o) == Len(o) > 0

NoTime == -1
NoScout == 0

Marketplaces == {"amazon", "bestbuy"}

(* A URL is modelled by the set of marketplace domains its text contains. *)
AmazonUrl == {"amazon.com"}
BestbuyUrl == {"bestbuy.com"}
OtherUrl == {}

detect_marketplace(url) ==
    IF "amazon.com" \in url THEN "amazon"
    ELSE IF "bestbuy.com" \in url THEN "bestbuy"
    ELSE "ValueError"

(* Seller names: NoSeller stands for None (and the empty string, equally   *)
(* falsy); Lower is str.lower on the names the model uses.                 *)
NoSeller == ""

Lower(s) ==
    CASE s = "Amazon.com" -> "amazon.com"
      [] s = "Best Buy" -> "best buy"
      [] s = "Mock Seller" -> "mock seller"
      [] OTHER -> s

(* A stock text is modelled by the set of keywords its lower-cased text     *)
(* contains; "In Stock" and "unknown" contain none of them.                *)
InStock == {}

PricePoint(product_id, marketplace, price, shipping, stock, seller, timestamp, scan, mock) ==
    [product_id |-> product_id, marketplace |-> marketplace, price |-> price,
     shipping |-> shipping, stock |-> stock, seller |-> seller,
     timestamp |-> timestamp, scan |-> scan, mock |-> mock]

total_cost(pp) == pp.price + pp.shipping

(* _get_mock_price: the price is random.uniform(20, 100), a choice of the  *)
(* caller here.                                                            *)
get_mock_price(product_id, marketplace, price, utcnow, scan) ==
    PricePoint(product_id, marketplace, price, 0, InStock, "Mock Seller", utcnow, scan, TRUE)

(* What scrape_price returns once its request has ended with `resp`:       *)
(* the parsed data, or the mock price on any failure.                      *)
scrape_price(url, product_id, resp, utcnow, scan) ==
    IF resp.ok
    THEN PricePoint(product_id, detect_marketplace(url), resp.price,
                    resp.shipping, resp.stock, resp.seller, utcnow, scan, FALSE)
    ELSE get_mock_price(product_id, detect_marketplace(url), resp.price, utcnow, scan)

----------------------------------------------------------------------------
(* Opportunity engine *)

(* round(n / d) to the nearest integer, a tie to the even one *)
RoundHalfEven(n, d) ==
    LET nn == IF d < 0 THEN -n ELSE n
        dd == IF d < 0 THEN -d ELSE d
        q == nn \div dd
        r == nn % dd
    IN  IF 2 * r < dd THEN q
        ELSE IF 2 * r > dd THEN q + 1
        ELSE IF q % 2 = 0 THEN q ELSE q + 1

Min(a, b) == IF a < b THEN a ELSE b
Max(a, b) == IF a > b THEN a ELSE b

(* Amounts with a fraction of a cent (the fees, and so the net profit) are *)
(* counted in 1/10000 dollar; margin_pct is the ratio net_profit /         *)
(* buy_total in these units, so it is compared as net_profit against       *)
(* bound * buy_total.  Scores are counted in tenths.                       *)

clamp_score_open(risk_score) == Max(0, risk_score)

clamp_score(risk_score) == Min(100, Max(0, risk_score))

(* "Stock availability risk": if ... elif ... *)
stock_factors_both(stock) ==
    (IF "out of stock" \in stock \/ "unavailable" \in stock
     THEN <<[pen |-> 30, label |-> "Buy source out of stock"]>> ELSE <<>>)
    \o (IF "low" \in stock \/ "only" \in stock
        THEN <<[pen |-> 15, label |-> "Low stock at buy source"]>> ELSE <<>>)

stock_factors(stock) ==
    IF "out of stock" \in stock \/ "unavailable" \in stock
    THEN <<[pen |-> 30, label |-> "Buy source out of stock"]>>
    ELSE IF "low" \in stock \/ "only" \in stock
    THEN <<[pen |-> 15, label |-> "Low stock at buy source"]>>
    ELSE <<>>

calculate_risk(buy_price, net_e4, buy_total) ==
    LET f1 == stock_factors(buy_price.stock)
        f2 == IF buy_price.seller # NoSeller /\ Lower(buy_price.seller) # "amazon.com"
              THEN <<[pen |-> 10, label |-> "Third-party seller"]>> ELSE <<>>
        f3 == IF net_e4 > 50 * buy_total
              THEN <<[pen |-> 20, label |-> "Unusually high margin - verify prices"]>> ELSE <<>>
        f4 == IF net_e4 < 10 * buy_total
              THEN <<[pen |-> 10, label |-> "Thin margin - price sensitive"]>> ELSE <<>>
        f5 == IF buy_price.shipping > 0
              THEN <<[pen |-> 5, label |-> "Shipping costs reduce margin"]>> ELSE <<>>
        fs == f1 \o f2 \o f3 \o f4 \o f5
        sum[i \in 0..Len(fs)] == IF i = 0 THEN 50 ELSE sum[i - 1] + fs[i].pen
    IN  [risk_score |-> clamp_score(sum[Len(fs)]),
         risk_factors |-> [i \in 1..Len(fs) |-> fs[i].label]]

(* "Determine buy/sell direction": Amazon is the buy side when its total   *)
(* cost is strictly the lower one.                                         *)
buy_on_amazon_or_equal(amazon_total, bestbuy_total) == amazon_total <= bestbuy_total

buy_on_amazon_if_dearer(amazon_total, bestbuy_total) == amazon_total > bestbuy_total

buy_on_amazon(amazon_total, bestbuy_total) == amazon_total < bestbuy_total

(* The fees of the branch taken, in 1/10000 dollar *)
estimated_fees_on_total(amazon_is_buy, sell_price) ==
    IF amazon_is_buy THEN 0 ELSE total_cost(sell_price) * AmazonSellerFeePct

estimated_fees(amazon_is_buy, sell_price) ==
    IF amazon_is_buy THEN 0 ELSE sell_price.price * AmazonSellerFeePct

gross_profit_before_shipping(buy_price, sell_price) == sell_price.price - buy_price.price

gross_profit(buy_price, sell_price) == sell_price.price - total_cost(buy_price)

(* gross counts cents, the fees and the result 1/10000 dollar *)
net_profit_adding_fees(gross, fees_e4) == gross * 100 + fees_e4

net_profit(gross, fees_e4) == gross * 100 - fees_e4

(* "Avoid division by zero" *)
invalid_cost_zero(buy_price) == total_cost(buy_price) = 0

invalid_cost(buy_price) == total_cost(buy_price) <= 0

(* margin_pct < self.min_margin *)
below_threshold_or_equal(net_e4, buy_total) ==
    IF buy_total > 0 THEN net_e4 <= MinMarginThreshold * buy_total
    ELSE net_e4 >= MinMarginThreshold * buy_total

below_threshold(net_e4, buy_total) ==
    IF buy_total > 0 THEN net_e4 < MinMarginThreshold * buy_total
    ELSE net_e4 > MinMarginThreshold * buy_total

(* round(margin_pct, 2), in 1/100 percent *)
rounded_margin(net_e4, buy_total) == RoundHalfEven(net_e4 * 100, buy_total)

(* The locals of calculate_opportunity once both arguments are present *)
calculate_locals(amazon_price, bestbuy_price) ==
    LET a == amazon_price[1]
        b == bestbuy_price[1]
        amazon_is_buy == buy_on_amazon(total_cost(a), total_cost(b))
        buy == IF amazon_is_buy THEN a ELSE b
        sell == IF amazon_is_buy THEN b ELSE a
        fees == estimated_fees(amazon_is_buy, sell)
        gross == gross_profit(buy, sell)
    IN  [buy_price |-> buy, sell_price |-> sell, estimated_fees |-> fees,
         gross_profit |-> gross, net_profit |-> net_profit(gross, fees)]

calculate_opportunity(product_id, amazon_price, bestbuy_price, utcnow) ==
    IF ~IsSome(amazon_price) \/ ~IsSome(bestbuy_price) THEN None
    ELSE
    LET l == calculate_locals(amazon_price, bestbuy_price)
        buy_total == total_cost(l.buy_price)
        risk == calculate_risk(l.buy_price, l.net_profit, buy_total)
    IN  IF invalid_cost(l.buy_price) THEN None
        ELSE IF below_threshold(l.net_profit, buy_total) THEN None
        ELSE Some([product_id |-> product_id,
                   buy_marketplace |-> l.buy_price.marketplace,
                   buy_price |-> l.buy_price.price,
                   buy_shipping |-> l.buy_price.shipping,
                   sell_marketplace |-> l.sell_price.marketplace,
                   sell_price |-> l.sell_price.price,
                   gross_profit |-> l.gross_profit,
                   estimated_fees |-> RoundHalfEven(l.estimated_fees, 100),
                   net_profit |-> RoundHalfEven(l.net_profit, 100),
                   margin_pct |-> rounded_margin(l.net_profit, buy_total),
                   risk_score |-> risk.risk_score,
                   risk_factors |-> risk.risk_factors,
                   stock_status |-> l.buy_price.stock,
                   last_updated |-> utcnow,
                   buy_obs |-> l.buy_price,
                   sell_obs |-> l.sell_price])

(* list.sort(key=margin_pct, reverse=True) is stable: opportunities of    *)
(* equal margin keep the order they had.                                   *)
RECURSIVE sort_ascending(_)
sort_ascending(opps) ==
    IF opps = <<>> THEN <<>>
    ELSE LET last == opps[Len(opps)]
             front == sort_ascending(SubSeq(opps, 1, Len(opps) - 1))
             Before(o) == o.margin_pct <= last.margin_pct
             After(o) == o.margin_pct > last.margin_pct
         IN  SelectSeq(front, Before) \o <<last>> \o SelectSeq(front, After)

RECURSIVE sort_recent_first(_)
sort_recent_first(opps) ==
    IF opps = <<>> THEN <<>>
    ELSE LET last == opps[Len(opps)]
             front == sort_recent_first(SubSeq(opps, 1, Len(opps) - 1))
             Before(o) == o.margin_pct > last.margin_pct
             After(o) == o.margin_pct <= last.margin_pct
         IN  SelectSeq(front, Before) \o <<last>> \o SelectSeq(front, After)

RECURSIVE sort_by_margin(_)
sort_by_margin(opps) ==
    IF opps = <<>> THEN <<>>
    ELSE LET last == opps[Len(opps)]
             front == sort_by_margin(SubSeq(opps, 1, Len(opps) - 1))
             Before(o) == o.margin_pct >= last.margin_pct
             After(o) == o.margin_pct < last.margin_pct
         IN  SelectSeq(front, Before) \o <<last>> \o SelectSeq(front, After)

(* min_margin counts 1/100 percent, max_risk tenths.  The result is the    *)
(* list returned and the list passed, as the call leaves it: the filter    *)
(* builds a new list and sorts that one.                                   *)
filter_opportunities(opportunities, min_margin, max_risk) ==
    LET bound == IF IsSome(min_margin) THEN min_margin[1] ELSE MinMarginThreshold * 100
        Margin(o) == o.margin_pct >= bound
        Risk(o) == o.risk_score <= max_risk[1]
        by_margin == SelectSeq(opportunities, Margin)
        filtered == IF IsSome(max_risk) THEN SelectSeq(by_margin, Risk) ELSE by_margin
    IN  [filtered |-> sort_by_margin(filtered), opportunities |-> opportunities]

----------------------------------------------------------------------------
(* Dictionaries: functions with a finite domain *)

EmptyDict == [q \in {} |-> 0]

SetKey(d, k, v) == [q \in DOMAIN d \cup {k} |-> IF q = k THEN v ELSE d[q]]

DelKey(d, k) == [q \in DOMAIN d \ {k} |-> d[q]]

GetOr(d, k, default) == IF k \in DOMAIN d THEN d[k] ELSE default

(* Iteration order of products_db: insertion order, which is the order of  *)
(* the identifiers, since each identifier is inserted once.                *)
RECURSIVE SortedSeq(_)
SortedSeq(S) ==
    IF S = {} THEN <<>>
    ELSE LET m == CHOOSE x \in S : \A y \in S : x <= y
         IN  <<m>> \o SortedSeq(S \ {m})

----------------------------------------------------------------------------
(* Inputs *)

Response(ok, price) ==
    [ok |-> ok, price |-> price, shipping |-> 0, stock |-> InStock, seller |-> NoSeller]

(* Answers of the scraping service: parsed data, or a failure (timeout,    *)
(* HTTP error, parse error, no result) with the random mock price drawn.   *)
Responses ==
    [amazon |-> {Response(TRUE, 7000), Response(FALSE, 2000)},
     bestbuy |-> {Response(TRUE, 5000), Response(TRUE, 7000), Response(FALSE, 2000)}]

(* POST /products bodies with what create_scout answered (an id or None)   *)
ProductInput(amazon_url, bestbuy_url, scouts) ==
    [amazon_url |-> amazon_url, bestbuy_url |-> bestbuy_url, scouts |-> scouts]

ProductInputs ==
    {ProductInput(AmazonUrl, BestbuyUrl, TRUE), ProductInput(OtherUrl, BestbuyUrl, FALSE),
     ProductInput(AmazonUrl, OtherUrl, TRUE)}

MainCfg ==
    [maxProducts |-> MaxProducts, maxTasks |-> MaxTasks, maxInFlight |-> MaxTasks,
     maxClock |-> 0, maxDeleting |-> MaxDeleting,
     responses |-> Responses, inputs |-> ProductInputs]

HistoryCfg ==
    [maxProducts |-> 1, maxTasks |-> MaxHistoryScans, maxInFlight |-> 1,
     maxClock |-> 0, maxDeleting |-> 0,
     responses |-> [amazon |-> {Response(TRUE, 7000)}, bestbuy |-> {Response(TRUE, 5000)}],
     inputs |-> {ProductInput(AmazonUrl, BestbuyUrl, TRUE)}]

----------------------------------------------------------------------------
(* Tasks: one per BackgroundTasks batch or awaited scan request.  pids is  *)
(* the batch, idx the scan_product call it is at.  outcomes logs how each  *)
(* scan_product call of the task ended: skipped, completed or the error    *)
(* raised, the number of scrape_price calls made and of prices obtained,   *)
(* whether calculate_opportunity found an opportunity, and the size of the *)
(* registry when the call ended its work.                                  *)

NoProduct == [id |-> 0, amazon_url |-> OtherUrl, bestbuy_url |-> OtherUrl]

NewTask(trigger, scout, pids) ==
    [trigger |-> trigger, scout |-> scout, pids |-> pids, idx |-> 1, pc |-> "queued",
     product |-> NoProduct, amazon_price |-> None, called |-> {}, outcomes |-> <<>>]

Outcome(pid, result, attempted, obtained, found) ==
    [pid |-> pid, result |-> result, attempted |-> attempted, obtained |-> obtained,
     found |-> found, held |-> Len(opportunities_db)]

Tracked(pid) == pid \in DOMAIN products_db

InFlight == {t \in 1..Len(tasks) : tasks[t].pc \in {"queued", "amazon", "bestbuy"}}

CanSpawn == Len(tasks) < cfg.maxTasks /\ Cardinality(InFlight) < cfg.maxInFlight

(* The batch moves on after a scan_product call returned. *)
advance(task, outcome) ==
    LET t1 == [task EXCEPT !.outcomes = Append(@, outcome), !.product = NoProduct,
                           !.amazon_price = None, !.called = {}]
    IN  IF task.idx < Len(task.pids)
        THEN [t1 EXCEPT !.idx = task.idx + 1, !.pc = "queued"]
        ELSE [t1 EXCEPT !.pc = "finished"]

(* An exception leaves scan_product: the rest of the batch is not run. *)
raise(task, outcome) ==
    [task EXCEPT !.outcomes = Append(@, outcome), !.pc = "raised",
                 !.product = NoProduct, !.amazon_price = None, !.called = {}]

----------------------------------------------------------------------------
(* scan_product after scrape_product returned or raised *)

history_key_missing_setdefault(prices, pid) == FALSE

history_key_missing(prices, pid) == pid \notin DOMAIN prices

store_prices(h, amazon_price, bestbuy_price) == h \o amazon_price \o bestbuy_price

evaluation_pair_stale(h, amazon_price, bestbuy_price) ==
    <<IF Len(h) > 0 THEN Some(h[1]) ELSE amazon_price, bestbuy_price>>

evaluation_pair(h, amazon_price, bestbuy_price) == <<amazon_price, bestbuy_price>>

upsert_opportunity_append(opps, pid, opportunity) ==
    IF IsSome(opportunity) THEN Append(opps, opportunity[1]) ELSE opps

upsert_opportunity_remove(opps, pid, opportunity) ==
    IF IsSome(opportunity)
    THEN LET Other(o) == o.product_id # pid
         IN  IF \E i \in 1..Len(opps) : opps[i].product_id = pid
             THEN SelectSeq(opps, Other)
             ELSE Append(opps, opportunity[1])
    ELSE opps

upsert_opportunity(opps, pid, opportunity) ==
    IF IsSome(opportunity)
    THEN LET Other(o) == o.product_id # pid
         IN  Append(SelectSeq(opps, Other), opportunity[1])
    ELSE opps

truncate_history_head(h) ==
    IF Len(h) > HistoryCap THEN SubSeq(h, 1, HistoryCap) ELSE h

truncate_history(h) ==
    IF Len(h) > HistoryCap THEN SubSeq(h, Len(h) - HistoryCap + 1, Len(h)) ELSE h

evaluate(h, pid, amazon_price, bestbuy_price, utcnow) ==
    LET pair == evaluation_pair(h, amazon_price, bestbuy_price)
    IN  calculate_opportunity(pid, pair[1], pair[2], utcnow)

scan_registry_clearing(opps, h, pid, exc, amazon_price, bestbuy_price, utcnow) ==
    IF exc = "none" /\ IsSome(amazon_price) /\ IsSome(bestbuy_price)
    THEN upsert_opportunity(opps, pid, evaluate(h, pid, amazon_price, bestbuy_price, utcnow))
    ELSE LET Same(o) == o.product_id = pid IN SelectSeq(opps, Same)

scan_registry(opps, h, pid, exc, amazon_price, bestbuy_price, utcnow) ==
    IF exc # "none" THEN opps
    ELSE IF IsSome(amazon_price) /\ IsSome(bestbuy_price)
    THEN upsert_opportunity(opps, pid, evaluate(h, pid, amazon_price, bestbuy_price, utcnow))
    ELSE opps

scan_history(h, exc, amazon_price, bestbuy_price) ==
    IF exc # "none" THEN h
    ELSE truncate_history(store_prices(h, amazon_price, bestbuy_price))

----------------------------------------------------------------------------
(* Initial state: the module-level stores of api/routes.py *)

InitStores ==
    /\ products_db = EmptyDict
    /\ prices_db = EmptyDict
    /\ opportunities_db = <<>>
    /\ tasks = <<>>
    /\ deleting = [p \in 1..MaxProducts |-> 0]
    /\ now = 0
    /\ next_id = 1
    /\ appended = EmptyDict

(* No call of the service on its own has been made *)
NoCall == [fn |-> "", pc |-> "idle", args |-> <<>>, locals |-> None, result |-> None]

Init == InitStores /\ cfg = MainCfg /\ call = NoCall

InitHistory == InitStores /\ cfg = HistoryCfg /\ call = NoCall

----------------------------------------------------------------------------
(* Time (datetime.utcnow) is read when a fetch has ended; dt is the time   *)
(* that passed since it was last read.                                     *)
Elapse(dt) ==
    /\ now + dt <= cfg.maxClock
    /\ now' = now + dt

(* POST /products *)
AddProduct(input) ==
    /\ next_id <= cfg.maxProducts
    /\ CanSpawn
    /\ LET id == next_id
           product == [id |-> id, amazon_url |-> input.amazon_url,
                       bestbuy_url |-> input.bestbuy_url,
                       amazon_scout_id |-> IF input.scouts THEN 2 * id - 1 ELSE NoScout,
                       bestbuy_scout_id |-> IF input.scouts THEN 2 * id ELSE NoScout,
                       last_scanned |-> NoTime]
       IN  /\ products_db' = SetKey(products_db, id, product)
           /\ prices_db' = SetKey(prices_db, id, <<>>)
           /\ appended' = SetKey(appended, id, <<>>)
           /\ tasks' = Append(tasks, NewTask("add_product", NoScout, <<id>>))
           /\ next_id' = id + 1
    /\ UNCHANGED <<opportunities_db, deleting, now, cfg, call>>

(* delete_product from "Remove from local storage" on *)
remove_product(pid) ==
    LET Other(o) == o.product_id # pid
    IN  /\ products_db' = DelKey(products_db, pid)
        /\ prices_db' = DelKey(prices_db, pid)
        /\ appended' = DelKey(appended, pid)
        /\ opportunities_db' = SelectSeq(opportunities_db, Other)

RECURSIVE SumTo(_, _)
SumTo(f, n) == IF n = 0 THEN 0 ELSE f[n] + SumTo(f, n - 1)

(* The delete_product coroutines awaiting delete_scout *)
Deleting == SumTo(deleting, MaxProducts)

(* DELETE /products/{product_id}, up to its first suspension (there is     *)
(* none when the product has no scout)                                     *)
DeleteProduct(pid) ==
    /\ Tracked(pid)
    /\ IF products_db[pid].amazon_scout_id = NoScout
          /\ products_db[pid].bestbuy_scout_id = NoScout
       THEN /\ remove_product(pid)
            /\ UNCHANGED deleting
       ELSE /\ Deleting < cfg.maxDeleting
            /\ deleting' = [deleting EXCEPT ![pid] = @ + 1]
            /\ UNCHANGED <<products_db, prices_db, appended, opportunities_db>>
    /\ UNCHANGED <<tasks, now, next_id, cfg, call>>

(* delete_product after the scouts were deleted; del products_db[id]       *)
(* raises KeyError when another request deleted the product meanwhile      *)
DeleteFinish(pid) ==
    /\ deleting[pid] > 0
    /\ deleting' = [deleting EXCEPT ![pid] = @ - 1]
    /\ IF ~Tracked(pid)
       THEN UNCHANGED <<products_db, prices_db, appended, opportunities_db>>
       ELSE remove_product(pid)
    /\ UNCHANGED <<tasks, now, next_id, cfg, call>>

(* POST /scan *)
TriggerScan ==
    /\ CanSpawn
    /\ DOMAIN products_db # {}
    /\ tasks' = Append(tasks, NewTask("scan_all", NoScout, SortedSeq(DOMAIN products_db)))
    /\ UNCHANGED <<products_db, prices_db, opportunities_db, deleting, now,
                   next_id, appended, cfg, call>>

resolve_product_default(db, scout_id) ==
    LET hits == {p \in DOMAIN db : db[p].amazon_scout_id = scout_id
                                   \/ db[p].bestbuy_scout_id = scout_id}
        pick == IF hits = {} THEN DOMAIN db ELSE hits
    IN  IF pick = {} THEN 0 ELSE CHOOSE p \in pick : \A q \in pick : p <= q

(* handle_yutori_webhook's lookup: the first product with that scout, 0 if none *)
resolve_product(db, scout_id) ==
    LET hits == {p \in DOMAIN db : db[p].amazon_scout_id = scout_id
                                   \/ db[p].bestbuy_scout_id = scout_id}
    IN  IF hits = {} THEN 0 ELSE CHOOSE p \in hits : \A q \in hits : p <= q

(* POST /webhooks/yutori *)
Webhook(scout_id) ==
    /\ resolve_product(products_db, scout_id) # 0
    /\ CanSpawn
    /\ tasks' = Append(tasks, NewTask("webhook", scout_id,
                                      <<resolve_product(products_db, scout_id)>>))
    /\ UNCHANGED <<products_db, prices_db, opportunities_db, deleting, now,
                   next_id, appended, cfg, call>>

(* The stores after a scan of pid ended in task state `task1`, with `exc`  *)
(* raised by scrape_product ("none": it returned the two prices).          *)
scan_end(t, task1, pid, exc, amazon_price, bestbuy_price, utcnow) ==
    LET missing == exc = "none" /\ history_key_missing(prices_db, pid)
        err == IF missing THEN "KeyError" ELSE exc
        h0 == GetOr(prices_db, pid, <<>>)
        h1 == IF err = "none" THEN store_prices(h0, amazon_price, bestbuy_price) ELSE h0
        opp == IF err = "none" /\ IsSome(amazon_price) /\ IsSome(bestbuy_price)
               THEN evaluate(h1, pid, amazon_price, bestbuy_price, utcnow) ELSE None
        outcome == Outcome(pid, IF err = "none" THEN "completed" ELSE err,
                           Cardinality(task1.called),
                           Len(amazon_price) + Len(bestbuy_price), IsSome(opp))
    IN  /\ tasks' = IF t > Len(tasks)
                    THEN Append(tasks, raise(task1, outcome))
                    ELSE [tasks EXCEPT ![t] = IF err = "none" THEN advance(task1, outcome)
                                              ELSE raise(task1, outcome)]
        /\ prices_db' = IF err = "none"
                        THEN SetKey(prices_db, pid,
                                    scan_history(h0, err, amazon_price, bestbuy_price))
                        ELSE prices_db
        /\ appended' = IF err = "none"
                       THEN SetKey(appended, pid, store_prices(GetOr(appended, pid, <<>>),
                                                               amazon_price, bestbuy_price))
                       ELSE appended
        /\ products_db' = IF err = "none" /\ Tracked(pid)
                          THEN [products_db EXCEPT ![pid].last_scanned = utcnow]
                          ELSE products_db
        /\ opportunities_db' = scan_registry(opportunities_db, h1, pid, err,
                                             amazon_price, bestbuy_price, utcnow)

(* scan_product is entered for a tracked product *)
enter_scan(t, task, pid) ==
    LET t1 == [task EXCEPT !.product = [id |-> pid,
                                        amazon_url |-> products_db[pid].amazon_url,
                                        bestbuy_url |-> products_db[pid].bestbuy_url],
                           !.called = {"amazon"}]
    IN  IF detect_marketplace(products_db[pid].amazon_url) = "ValueError"
        THEN scan_end(t, t1, pid, "ValueError", None, None, now)
        ELSE /\ tasks' = IF t > Len(tasks) THEN Append(tasks, [t1 EXCEPT !.pc = "amazon"])
                         ELSE [tasks EXCEPT ![t] = [t1 EXCEPT !.pc = "amazon"]]
             /\ UNCHANGED <<products_db, prices_db, opportunities_db, appended>>

(* A queued background scan_product starts *)
ScanStart(t) ==
    /\ t \in 1..Len(tasks)
    /\ tasks[t].pc = "queued"
    /\ LET pid == tasks[t].pids[tasks[t].idx]
       IN  IF ~Tracked(pid)
           THEN /\ tasks' = [tasks EXCEPT
                               ![t] = advance(tasks[t], Outcome(pid, "skipped", 0, 0, FALSE))]
                /\ UNCHANGED <<products_db, prices_db, opportunities_db, appended>>
           ELSE enter_scan(t, tasks[t], pid)
    /\ UNCHANGED <<deleting, now, next_id, cfg, call>>

(* POST /scan/{product_id}: scan_product is awaited by the handler *)
TriggerProductScan(pid) ==
    /\ Tracked(pid)
    /\ CanSpawn
    /\ enter_scan(Len(tasks) + 1, NewTask("scan_one", NoScout, <<pid>>), pid)
    /\ UNCHANGED <<deleting, now, next_id, cfg, call>>

(* The first fetch of scrape_product ends; scrape_price is called for the  *)
(* second URL.                                                             *)
FetchAmazonDone(t, resp, dt) ==
    /\ t \in 1..Len(tasks)
    /\ tasks[t].pc = "amazon"
    /\ Elapse(dt)
    /\ LET task == tasks[t]
           pid == task.product.id
           a == scrape_price(task.product.amazon_url, pid, resp, now + dt, <<t, task.idx>>)
           t1 == [task EXCEPT !.amazon_price = Some(a), !.called = @ \cup {"bestbuy"}]
       IN  IF detect_marketplace(task.product.bestbuy_url) = "ValueError"
           THEN scan_end(t, t1, pid, "ValueError", Some(a), None, now + dt)
           ELSE /\ tasks' = [tasks EXCEPT ![t] = [t1 EXCEPT !.pc = "bestbuy"]]
                /\ UNCHANGED <<products_db, prices_db, opportunities_db, appended>>
    /\ UNCHANGED <<deleting, next_id, cfg, call>>

(* The second fetch ends; scrape_product returns and scan_product runs to  *)
(* its end.                                                                *)
FetchBestbuyDone(t, resp, dt) ==
    /\ t \in 1..Len(tasks)
    /\ tasks[t].pc = "bestbuy"
    /\ Elapse(dt)
    /\ LET task == tasks[t]
           pid == task.product.id
           b == scrape_price(task.product.bestbuy_url, pid, resp, now + dt, <<t, task.idx>>)
       IN  scan_end(t, task, pid, "none", task.amazon_price, Some(b), now + dt)
    /\ UNCHANGED <<deleting, next_id, cfg, call>>

----------------------------------------------------------------------------

Next ==
    \/ \E input \in cfg.inputs : AddProduct(input)
    \/ \E pid \in 1..MaxProducts : DeleteProduct(pid)
    \/ \E pid \in 1..MaxProducts : DeleteFinish(pid)
    \/ TriggerScan
    \/ \E pid \in 1..MaxProducts : TriggerProductScan(pid)
    \/ \E scout_id \in 1..(2 * MaxProducts + 1) : Webhook(scout_id)
    \/ \E t \in 1..Len(tasks) : ScanStart(t)
    \/ \E t \in 1..Len(tasks), resp \in cfg.responses.amazon, dt \in 0..1 :
          FetchAmazonDone(t, resp, dt)
    \/ \E t \in 1..Len(tasks), resp \in cfg.responses.bestbuy, dt \in 0..1 :
          FetchBestbuyDone(t, resp, dt)

Spec == Init /\ [][Next]_vars

(* Scans of one product, one after the other, with a single answer of the  *)
(* scraping service: long enough for the history cap to be reached.        *)
NextHistory ==
    \/ \E input \in cfg.inputs : AddProduct(input)
    \/ \E pid \in 1..MaxProducts : TriggerProductScan(pid)
    \/ \E t \in 1..Len(tasks) : ScanStart(t)
    \/ \E t \in 1..Len(tasks), resp \in cfg.responses.amazon, dt \in 0..1 :
          FetchAmazonDone(t, resp, dt)
    \/ \E t \in 1..Len(tasks), resp \in cfg.responses.bestbuy, dt \in 0..1 :
          FetchBestbuyDone(t, resp, dt)

SpecHistory == InitHistory /\ [][NextHistory]_vars

----------------------------------------------------------------------------
(* calculate_opportunity on its own: the arguments are drawn by the        *)
(* initial state, the step applies the function.                           *)

Observation(marketplace, price, shipping, stock, seller) ==
    PricePoint(1, marketplace, price, shipping, stock, seller, 0, <<0, 0>>, FALSE)

(* Prices and shipping costs are what the scraping service answered: any   *)
(* number, zero and negative ones included.                                *)
AmazonObservations ==
    {Observation("amazon", price, shipping, InStock, "Amazon.com") :
        price \in {-100, 0, 2000, 2497, 5000, 5200, 7000, 20000}, shipping \in {0, 200}}
    \cup {Observation("amazon", 2000, 0, {"only"}, "Mock Seller"),
          Observation("amazon", 2000, 200, {"out of stock"}, NoSeller),
          Observation("amazon", -200, 150, InStock, NoSeller)}

BestbuyObservations ==
    {Observation("bestbuy", price, shipping, InStock, NoSeller) :
        price \in {-100, 0, 2000, 2099, 2100, 4800, 5000, 7000}, shipping \in {0, 200}}
    \cup {Observation("bestbuy", 4800, 200, {"out of stock"}, "Best Buy"),
          Observation("bestbuy", 4800, 200, {"low"}, NoSeller),
          Observation("bestbuy", 2000, 0, {"unavailable", "only"}, "Third Party Co")}

Optionals(S) == {None} \cup {Some(x) : x \in S}

InitEngine ==
    /\ InitStores
    /\ cfg = MainCfg
    /\ \E amazon_price \in Optionals(AmazonObservations),
          bestbuy_price \in Optionals(BestbuyObservations) :
          call = [fn |-> "calculate_opportunity", pc |-> "called",
                  args |-> <<amazon_price, bestbuy_price>>,
                  locals |-> None, result |-> None]

CalculateOpportunity ==
    /\ call.fn = "calculate_opportunity"
    /\ call.pc = "called"
    /\ LET amazon_price == call.args[1]
           bestbuy_price == call.args[2]
       IN  call' = [call EXCEPT
                      !.pc = "returned",
                      !.locals = IF IsSome(amazon_price) /\ IsSome(bestbuy_price)
                                 THEN Some(calculate_locals(amazon_price, bestbuy_price))
                                 ELSE None,
                      !.result = calculate_opportunity(1, amazon_price, bestbuy_price, now)]
    /\ UNCHANGED <<products_db, prices_db, opportunities_db, tasks, deleting, now,
                   next_id, appended, cfg>>

NextEngine == CalculateOpportunity

SpecEngine == InitEngine /\ [][NextEngine]_vars

----------------------------------------------------------------------------
(* GET /opportunities next to the scans that fill the registry *)

QueryMinMargins == {None, Some(1900), Some(10000)}

QueryMaxRisks == {None, Some(50)}

QueryCfg ==
    [maxProducts |-> MaxProducts, maxTasks |-> MaxTasks, maxInFlight |-> 1,
     maxClock |-> 0, maxDeleting |-> 0,
     responses |-> [amazon |-> {Response(TRUE, 7000), Response(FALSE, 2000)},
                    bestbuy |-> {Response(TRUE, 5000)}],
     inputs |-> {ProductInput(AmazonUrl, BestbuyUrl, TRUE)}]

InitQuery == InitStores /\ cfg = QueryCfg /\ call = NoCall

GetOpportunities(min_margin, max_risk) ==
    /\ LET r == filter_opportunities(opportunities_db, min_margin, max_risk)
       IN  /\ call' = [fn |-> "filter_opportunities", pc |-> "returned",
                       args |-> <<min_margin, max_risk>>, locals |-> None,
                       result |-> r.filtered]
           /\ opportunities_db' = r.opportunities
    /\ UNCHANGED <<products_db, prices_db, tasks, deleting, now, next_id, appended, cfg>>

NextQuery ==
    \/ \E input \in cfg.inputs : AddProduct(input)
    \/ \E t \in 1..Len(tasks) : ScanStart(t)
    \/ \E t \in 1..Len(tasks), resp \in cfg.responses.amazon, dt \in 0..1 :
          FetchAmazonDone(t, resp, dt)
    \/ \E t \in 1..Len(tasks), resp \in cfg.responses.bestbuy, dt \in 0..1 :
          FetchBestbuyDone(t, resp, dt)
    \/ \E min_margin \in QueryMinMargins, max_risk \in QueryMaxRisks :
          GetOpportunities(min_margin, max_risk)

SpecQuery == InitQuery /\ [][NextQuery]_vars

----------------------------------------------------------------------------
(* POST /scan once the products are tracked: a batch of one scan_product   *)
(* per product, with products whose scan raises among them.                *)

BulkCfg ==
    [maxProducts |-> MaxProducts, maxTasks |-> MaxTasks + 1, maxInFlight |-> 1,
     maxClock |-> 0, maxDeleting |-> 0,
     responses |-> [amazon |-> {Response(TRUE, 7000)},
                    bestbuy |-> {Response(TRUE, 5000), Response(FALSE, 2000)}],
     inputs |-> {ProductInput(AmazonUrl, BestbuyUrl, FALSE),
                 ProductInput(OtherUrl, BestbuyUrl, FALSE)}]

InitBulk == InitStores /\ cfg = BulkCfg /\ call = NoCall

NextBulk ==
    \/ \E input \in cfg.inputs : AddProduct(input)
    \/ \E pid \in 1..MaxProducts : DeleteProduct(pid)
    \/ TriggerScan
    \/ \E t \in 1..Len(tasks) : ScanStart(t)
    \/ \E t \in 1..Len(tasks), resp \in cfg.responses.amazon, dt \in 0..1 :
          FetchAmazonDone(t, resp, dt)
    \/ \E t \in 1..Len(tasks), resp \in cfg.responses.bestbuy, dt \in 0..1 :
          FetchBestbuyDone(t, resp, dt)

SpecBulk == InitBulk /\ [][NextBulk]_vars

----------------------------------------------------------------------------
(* Properties *)

Outcomes == {<<t, k>> \in (1..Len(tasks)) \X (1..MaxProducts) :
                k <= Len(tasks[t].outcomes)}

OutcomeAt(tk) == tasks[tk[1]].outcomes[tk[2]]

OutLen(ts, t) == IF t <= Len(ts) THEN Len(ts[t].outcomes) ELSE 0

HasOpportunity(opps, pid) == \E i \in 1..Len(opps) : opps[i].product_id = pid

(* C1: in every reachable state the registry holds at most one opportunity *)
(* per product identifier.                                                 *)
C1_OneOpportunityPerProduct ==
    \A i, j \in 1..Len(opportunities_db) :
        opportunities_db[i].product_id = opportunities_db[j].product_id => i = j

(* Two scans of one product each found an opportunity, the second one      *)
(* while the registry held one, and the registry holds one for it.         *)
C1_Witness ==
    \E x, y \in Outcomes :
        /\ x # y
        /\ OutcomeAt(x).pid = OutcomeAt(y).pid
        /\ OutcomeAt(x).found /\ OutcomeAt(y).found
        /\ OutcomeAt(y).held > 0
        /\ HasOpportunity(opportunities_db, OutcomeAt(x).pid)

FromRequests(opps) ==
    \A i \in 1..Len(opps) : ~opps[i].buy_obs.mock /\ ~opps[i].sell_obs.mock

LastTwoFromRequests(h) ==
    Len(h) >= 2 /\ ~h[Len(h)].mock /\ ~h[Len(h) - 1].mock

(* C2: a scan that obtained both observations and for which the engine     *)
(* returned none leaves no opportunity for its product in the registry     *)
(* (stated for observations and opportunities that come from answered      *)
(* requests, none from the mock fallback).                                 *)
C2_NoneClearsOpportunity ==
    [][\A t \in 1..Len(tasks') :
          (/\ OutLen(tasks', t) > OutLen(tasks, t)
           /\ tasks'[t].outcomes[OutLen(tasks', t)].result = "completed"
           /\ tasks'[t].outcomes[OutLen(tasks', t)].obtained = 2
           /\ ~tasks'[t].outcomes[OutLen(tasks', t)].found
           /\ FromRequests(opportunities_db)
           /\ LastTwoFromRequests(appended'[tasks'[t].outcomes[OutLen(tasks', t)].pid]))
          => ~HasOpportunity(opportunities_db',
                             tasks'[t].outcomes[OutLen(tasks', t)].pid)]_vars

(* C3: a product's history holds at most 100 observations, and they are    *)
(* the most recently appended ones in append order.                        *)
C3_HistoryIsRecentTail ==
    \A p \in DOMAIN prices_db :
        LET h == prices_db[p]
            all == appended[p]
        IN  /\ Len(h) <= 100
            /\ Len(h) = Min(100, Len(all))
            /\ \A i \in 1..Len(h) : h[i] = all[Len(all) - Len(h) + i]

(* Observations were evicted from a history. *)
C3_Witness ==
    \E p \in DOMAIN prices_db :
        Len(appended[p]) > 100 /\ Len(prices_db[p]) = 100

(* C4: every opportunity and every history key belongs to a tracked        *)
(* product.                                                                *)
C4_NoOrphans ==
    /\ \A i \in 1..Len(opportunities_db) :
          opportunities_db[i].product_id \in DOMAIN products_db
    /\ DOMAIN prices_db \subseteq DOMAIN products_db

(* A scan resumed with both prices after its product was deleted. *)
C4_Witness ==
    \E x \in Outcomes :
        /\ OutcomeAt(x).result = "KeyError"
        /\ OutcomeAt(x).obtained = 2
        /\ OutcomeAt(x).pid \notin DOMAIN products_db

(* C5: both observations of every opportunity in the registry were fetched *)
(* by the same scan invocation.                                            *)
C5_PairedFromSameScan ==
    \A i \in 1..Len(opportunities_db) :
        /\ opportunities_db[i].buy_obs.scan = opportunities_db[i].sell_obs.scan
        /\ opportunities_db[i].buy_obs.product_id = opportunities_db[i].product_id
        /\ opportunities_db[i].sell_obs.product_id = opportunities_db[i].product_id

(* The registry holds an opportunity of a product while another scan of    *)
(* that product holds its first price and awaits the second.               *)
C5_Witness ==
    \E i \in 1..Len(opportunities_db), t \in 1..Len(tasks) :
        /\ tasks[t].pc = "bestbuy"
        /\ tasks[t].product.id = opportunities_db[i].product_id
        /\ opportunities_db[i].buy_obs.scan[1] # t
        /\ IsSome(tasks[t].amazon_price)

C7_NoErrorLeavesScan ==
    \A t \in 1..Len(tasks) : tasks[t].pc # "raised"

(* C8: a failed fetch leaves no observation: no history entry and no side  *)
(* of an opportunity comes from a failed fetch.                            *)
C8_FailedFetchLeavesNothing ==
    /\ \A p \in DOMAIN prices_db : \A i \in 1..Len(prices_db[p]) : ~prices_db[p][i].mock
    /\ \A i \in 1..Len(opportunities_db) :
          ~opportunities_db[i].buy_obs.mock /\ ~opportunities_db[i].sell_obs.mock

(* C9: every scan of a tracked product calls the fetch of both             *)
(* marketplaces.                                                           *)
C9_BothFetchesAttempted ==
    \A x \in Outcomes : OutcomeAt(x).result # "skipped" => OutcomeAt(x).attempted = 2

(* C10: a scan started for an untracked product changes no store and       *)
(* issues no fetch, and a webhook schedules a scan only for the tracked    *)
(* product that has its scout id.                                          *)
C10_UntrackedChangesNothing ==
    [][/\ \A t \in 1..Len(tasks) :
             (/\ tasks[t].pc = "queued"
              /\ tasks[t].pids[tasks[t].idx] \notin DOMAIN products_db
              /\ tasks'[t] # tasks[t])
             => /\ UNCHANGED <<products_db, prices_db, opportunities_db>>
                /\ Len(tasks') = Len(tasks)
                /\ tasks'[t].called = {}
                /\ tasks'[t].pc \in {"queued", "finished"}
                /\ \A u \in 1..Len(tasks) : u # t => tasks'[u] = tasks[u]
       /\ \A t \in (Len(tasks) + 1)..Len(tasks') :
             tasks'[t].trigger = "webhook"
             => /\ tasks'[t].pids[1] \in DOMAIN products_db
                /\ tasks'[t].scout \in {products_db[tasks'[t].pids[1]].amazon_scout_id,
                                        products_db[tasks'[t].pids[1]].bestbuy_scout_id}
                /\ UNCHANGED <<products_db, prices_db, opportunities_db>>]_vars

(* A scan scheduled by a webhook started after its product was deleted. *)
C10_Witness ==
    \E t \in 1..Len(tasks) :
        /\ tasks[t].trigger = "webhook"
        /\ Len(tasks[t].outcomes) = 1
        /\ tasks[t].outcomes[1].result = "skipped"
        /\ tasks[t].pids[1] \notin DOMAIN products_db

(* C11: at most one scan of a product is in flight: no two scans of the    *)
(* same product are between the start of their fetches and their end.      *)
C11_OneScanPerProduct ==
    \A t, u \in 1..Len(tasks) :
        (/\ t # u
         /\ tasks[t].pc \in {"amazon", "bestbuy"}
         /\ tasks[u].pc \in {"amazon", "bestbuy"})
        => tasks[t].product.id # tasks[u].product.id

----------------------------------------------------------------------------
(* Properties of calculate_opportunity, read off a returned call *)

Returned == call.fn = "calculate_opportunity" /\ call.pc = "returned"

BothPresent == IsSome(call.args[1]) /\ IsSome(call.args[2])

Abs(x) == IF x < 0 THEN -x ELSE x

(* C12: when the total cost of either observation is <= 0 the result is    *)
(* none.                                                                   *)
C12_NonPositiveCostGivesNone ==
    (/\ Returned
     /\ BothPresent
     /\ \/ total_cost(call.args[1][1]) <= 0
        \/ total_cost(call.args[2][1]) <= 0)
    => call.result = None

(* The call returned none for an Amazon observation of positive total     *)
(* cost paired with a Best Buy observation of negative total cost.         *)
C12_Witness ==
    /\ Returned
    /\ BothPresent
    /\ call.result = None
    /\ total_cost(call.args[1][1]) > 0
    /\ total_cost(call.args[2][1]) < 0

(* C13: the result is none when the computed margin is below the           *)
(* threshold, an opportunity when both total costs are positive and the    *)
(* margin is at least the threshold; a returned opportunity's margin_pct   *)
(* is at least the threshold.                                              *)
C13_ThresholdGate ==
    (Returned /\ BothPresent) =>
        LET l == call.locals[1]
            buy_total == total_cost(l.buy_price)
        IN  /\ (buy_total > 0 /\ l.net_profit < MinMarginThreshold * buy_total)
               => call.result = None
            /\ (/\ total_cost(call.args[1][1]) > 0
                /\ total_cost(call.args[2][1]) > 0
                /\ l.net_profit >= MinMarginThreshold * buy_total)
               => IsSome(call.result)
            /\ IsSome(call.result)
               => call.result[1].margin_pct >= MinMarginThreshold * 100

(* An opportunity was returned for a margin of exactly the threshold. *)
C13_Witness ==
    /\ Returned
    /\ BothPresent
    /\ IsSome(call.result)
    /\ call.locals[1].net_profit = MinMarginThreshold * total_cost(call.locals[1].buy_price)

(* C14 as stated: on the stored fields of an opportunity returned for      *)
(* non-negative prices and shipping costs (cents, 1/100 percent),          *)
(* net_profit = gross_profit - estimated_fees and                          *)
(* margin_pct = net_profit / (buy_price + buy_shipping) * 100, each up to  *)
(* one rounding unit.                                                      *)
C14_StoredFieldsConsistent ==
    (/\ Returned
     /\ IsSome(call.result)
     /\ \A i \in 1..2 : call.args[i][1].price >= 0 /\ call.args[i][1].shipping >= 0) =>
        LET o == call.result[1]
            buy_total == o.buy_price + o.buy_shipping
        IN  /\ Abs(o.net_profit - (o.gross_profit - o.estimated_fees)) <= 1
            /\ Abs(o.margin_pct * buy_total - o.net_profit * 10000) <= buy_total

(* C14 amended: net_profit = gross_profit - estimated_fees up to one        *)
(* rounding unit, and margin_pct is the rounding of the margin of the      *)
(* unrounded net profit: it is within half a unit (0.005) plus the margin  *)
(* of half a cent (0.5 / buy total in dollars) of                          *)
(* net_profit / (buy_price + buy_shipping) * 100.                          *)
C14_StoredFieldsWithinRounding ==
    (Returned /\ IsSome(call.result)) =>
        LET o == call.result[1]
            buy_total == o.buy_price + o.buy_shipping
        IN  /\ Abs(o.net_profit - (o.gross_profit - o.estimated_fees)) <= 1
            /\ 2 * Abs(o.margin_pct * buy_total - o.net_profit * 10000)
                  <= buy_total + 10000

(* An opportunity was returned whose fees have a fraction of a cent and    *)
(* whose stored margin is more than a unit away from the margin of its     *)
(* stored net profit.                                                      *)
C14_Witness ==
    /\ Returned
    /\ IsSome(call.result)
    /\ call.locals[1].estimated_fees % 100 # 0
    /\ LET o == call.result[1]
       IN  Abs(o.margin_pct * (o.buy_price + o.buy_shipping) - o.net_profit * 10000)
              > o.buy_price + o.buy_shipping

(* C15: buying at 48.00 + 2.00 shipping on Best Buy and selling at 70.00   *)
(* on Amazon is an opportunity with fees 10.50, gross profit 20.00, net    *)
(* profit 9.50 and margin 19.00 percent.                                   *)
C15_Scenario ==
    (/\ Returned
     /\ BothPresent
     /\ call.args[1][1].price = 7000
     /\ call.args[2][1].price = 4800
     /\ call.args[2][1].shipping = 200)
    => /\ IsSome(call.result)
       /\ call.result[1].buy_marketplace = "bestbuy"
       /\ call.result[1].sell_marketplace = "amazon"
       /\ call.result[1].estimated_fees = 1050
       /\ call.result[1].gross_profit = 2000
       /\ call.result[1].net_profit = 950
       /\ call.result[1].margin_pct = 1900

(* The call of the scenario returned. *)
C15_Witness ==
    /\ Returned
    /\ BothPresent
    /\ call.args[1][1].price = 7000
    /\ call.args[1][1].marketplace = "amazon"
    /\ call.args[2][1].price = 4800
    /\ call.args[2][1].shipping = 200
    /\ call.args[2][1].marketplace = "bestbuy"
    /\ IsSome(call.result)

(* The penalty, in tenths, that goes with a risk-factor label *)
PenaltyOf(label) ==
    CASE label = "Buy source out of stock" -> 30
      [] label = "Low stock at buy source" -> 15
      [] label = "Third-party seller" -> 10
      [] label = "Unusually high margin - verify prices" -> 20
      [] label = "Thin margin - price sensitive" -> 10
      [] label = "Shipping costs reduce margin" -> 5

RECURSIVE PenaltySum(_)
PenaltySum(labels) ==
    IF labels = <<>> THEN 0 ELSE PenaltyOf(Head(labels)) + PenaltySum(Tail(labels))

(* C16: the risk score of a returned opportunity is 5.0 plus the penalties *)
(* of its factors, cut to the range 0 to 10.                               *)
C16_RiskScoreClamped ==
    (Returned /\ IsSome(call.result)) =>
        LET o == call.result[1]
            raw == 50 + PenaltySum(o.risk_factors)
        IN  /\ o.risk_score = IF raw > 100 THEN 100 ELSE IF raw < 0 THEN 0 ELSE raw
            /\ o.risk_score >= 0
            /\ o.risk_score <= 100

(* An opportunity was returned whose penalties take the score above 10. *)
C16_Witness ==
    /\ Returned
    /\ IsSome(call.result)
    /\ 50 + PenaltySum(call.result[1].risk_factors) > 100
    /\ call.result[1].risk_score = 100

(* The stored sides of a returned opportunity are those of the locals *)
SidesStored ==
    IsSome(call.result) =>
        LET o == call.result[1]
            l == call.locals[1]
        IN  /\ o.buy_marketplace = l.buy_price.marketplace
            /\ o.buy_price = l.buy_price.price
            /\ o.buy_shipping = l.buy_price.shipping
            /\ o.sell_marketplace = l.sell_price.marketplace
            /\ o.sell_price = l.sell_price.price

(* C19 as stated: the buy side is the observation of strictly lower total  *)
(* cost and the sell side the other one; when the total costs are equal    *)
(* the buy side is Amazon's and the sell side Best Buy's.                  *)
C19_TieBuysOnAmazon ==
    (Returned /\ BothPresent) =>
        LET a == call.args[1][1]
            b == call.args[2][1]
            l == call.locals[1]
        IN  /\ total_cost(a) < total_cost(b) => l.buy_price = a /\ l.sell_price = b
            /\ total_cost(b) < total_cost(a) => l.buy_price = b /\ l.sell_price = a
            /\ total_cost(a) = total_cost(b) => l.buy_price = a /\ l.sell_price = b
            /\ SidesStored

(* C19 amended: the buy side is the observation of strictly lower total    *)
(* cost and the sell side the other one; when the total costs are equal    *)
(* the buy side is Best Buy's (the bestbuy_price argument) and the sell    *)
(* side Amazon's (the amazon_price argument).                              *)
C19_TieBuysOnBestbuy ==
    (Returned /\ BothPresent) =>
        LET a == call.args[1][1]
            b == call.args[2][1]
            l == call.locals[1]
        IN  /\ total_cost(a) < total_cost(b) => l.buy_price = a /\ l.sell_price = b
            /\ total_cost(b) < total_cost(a) => l.buy_price = b /\ l.sell_price = a
            /\ total_cost(a) = total_cost(b) => l.buy_price = b /\ l.sell_price = a
            /\ SidesStored

(* The call returned for two observations of equal, positive total cost. *)
C19_Witness ==
    /\ Returned
    /\ BothPresent
    /\ total_cost(call.args[1][1]) = total_cost(call.args[2][1])
    /\ total_cost(call.args[1][1]) > 0
    /\ call.locals[1].sell_price.marketplace = "amazon"

(* C20: the fees are sell price * fee_pct / 100 when the sell side is      *)
(* Amazon and 0 when it is Best Buy; shipping and the buy side do not      *)
(* enter them.                                                             *)
C20_FeesOnAmazonSale ==
    (Returned /\ BothPresent) =>
        LET l == call.locals[1]
        IN  /\ l.estimated_fees = IF l.sell_price.marketplace = "amazon"
                                  THEN l.sell_price.price * AmazonSellerFeePct ELSE 0
            /\ IsSome(call.result) =>
                  call.result[1].estimated_fees =
                     IF call.result[1].sell_marketplace = "amazon"
                     THEN RoundHalfEven(call.result[1].sell_price * AmazonSellerFeePct, 100)
                     ELSE 0

(* An opportunity was returned that sells on Amazon an item whose Amazon   *)
(* observation has a shipping cost, with fees on the price alone.          *)
C20_Witness ==
    /\ Returned
    /\ IsSome(call.result)
    /\ call.result[1].sell_marketplace = "amazon"
    /\ call.locals[1].sell_price.shipping > 0
    /\ call.result[1].estimated_fees > 0

(* C17: a query returns exactly the opportunities of the registry with     *)
(* margin_pct >= minMargin (the configured minimum when absent) and        *)
(* risk_score <= maxRisk (no bound when absent), each once, ordered by     *)
(* margin_pct non-increasing, and leaves the registry as it was.           *)
C17_QueryFiltersAndSorts ==
    [][(call' # call /\ call'.fn = "filter_opportunities") =>
          LET min_margin == call'.args[1]
              max_risk == call'.args[2]
              bound == IF min_margin = None THEN MinMarginThreshold * 100
                       ELSE min_margin[1]
              r == call'.result
              Wanted(o) == /\ o.margin_pct >= bound
                           /\ max_risk # None => o.risk_score <= max_risk[1]
          IN  /\ opportunities_db' = opportunities_db
              /\ \A i \in 1..Len(opportunities_db) :
                    Wanted(opportunities_db[i])
                    <=> \E j \in 1..Len(r) : r[j] = opportunities_db[i]
              /\ \A j \in 1..Len(r) :
                    \E i \in 1..Len(opportunities_db) : r[j] = opportunities_db[i]
              /\ \A j, k \in 1..Len(r) : r[j] = r[k] => j = k
              /\ \A j, k \in 1..Len(r) : j < k => r[j].margin_pct >= r[k].margin_pct]_vars

(* A query with minMargin equal to the margin of one opportunity returned  *)
(* both opportunities of the registry, in the other order than the         *)
(* registry's.                                                             *)
C17_Witness ==
    /\ call.fn = "filter_opportunities"
    /\ call.args[1] = Some(1900)
    /\ Len(opportunities_db) = 2
    /\ call.result = <<opportunities_db[2], opportunities_db[1]>>
    /\ opportunities_db[1].margin_pct = 1900
    /\ opportunities_db[2].margin_pct > 1900

(* C18: a bulk scan runs a scan for every product of its batch that stays  *)
(* tracked, whatever happens to the scans of the other products: once the  *)
(* batch has come to its end, by its last scan returning or by a scan      *)
(* raising, every product of the batch that is still tracked and whose     *)
(* URLs are those of known marketplaces has had its scan run.              *)
C18_BulkScansEveryProduct ==
    \A t \in 1..Len(tasks) :
        (tasks[t].trigger = "scan_all" /\ tasks[t].pc \in {"finished", "raised"})
        => \A k \in 1..Len(tasks[t].pids) :
              (/\ tasks[t].pids[k] \in DOMAIN products_db
               /\ detect_marketplace(products_db[tasks[t].pids[k]].amazon_url)
                     # "ValueError"
               /\ detect_marketplace(products_db[tasks[t].pids[k]].bestbuy_url)
                     # "ValueError")
              => \E n \in 1..Len(tasks[t].outcomes) :
                    tasks[t].outcomes[n].pid = tasks[t].pids[k]

----------------------------------------------------------------------------
(* The risk factors of a returned opportunity *)

HasLabel(labels, label) == \E i \in 1..Len(labels) : labels[i] = label

LabelIf(condition, label) == IF condition THEN <<label>> ELSE <<>>

(* C21: the risk-factor list is the sequence of the labels of the factors  *)
(* whose condition holds, in the order stock, third-party seller, high     *)
(* margin, thin margin, shipping, with at most one stock label (out of     *)
(* stock before low stock) and never both margin labels.                   *)
C21_FactorsInOrder ==
    (Returned /\ IsSome(call.result)) =>
        LET labels == call.result[1].risk_factors
            buy == call.locals[1].buy_price
            net == call.locals[1].net_profit
            out == "out of stock" \in buy.stock \/ "unavailable" \in buy.stock
            low == "low" \in buy.stock \/ "only" \in buy.stock
        IN  /\ labels =
                  LabelIf(out, "Buy source out of stock")
                  \o LabelIf(~out /\ low, "Low stock at buy source")
                  \o LabelIf(buy.seller # NoSeller /\ Lower(buy.seller) # "amazon.com",
                             "Third-party seller")
                  \o LabelIf(net > 50 * total_cost(buy),
                             "Unusually high margin - verify prices")
                  \o LabelIf(net < 10 * total_cost(buy), "Thin margin - price sensitive")
                  \o LabelIf(buy.shipping > 0, "Shipping costs reduce margin")
            /\ ~(/\ HasLabel(labels, "Buy source out of stock")
                 /\ HasLabel(labels, "Low stock at buy source"))
            /\ ~(/\ HasLabel(labels, "Unusually high margin - verify prices")
                 /\ HasLabel(labels, "Thin margin - price sensitive"))

(* An opportunity was returned whose buy side's stock text matches both    *)
(* stock conditions and which has a seller factor and a margin factor.     *)
C21_Witness ==
    /\ Returned
    /\ IsSome(call.result)
    /\ "unavailable" \in call.locals[1].buy_price.stock
    /\ "only" \in call.locals[1].buy_price.stock
    /\ Len(call.result[1].risk_factors) >= 3

(* The name under which a marketplace sells itself, in lower case *)
FirstPartySeller(marketplace) == IF marketplace = "amazon" THEN "amazon.com" ELSE "best buy"

(* C22: an opportunity has the third-party-seller factor exactly when its  *)
(* buy-side observation has a seller that is not the first-party seller of *)
(* the buy side's own marketplace.                                         *)
C22_ThirdPartyPerMarketplace ==
    (Returned /\ IsSome(call.result)) =>
        LET buy == call.locals[1].buy_price
        IN  HasLabel(call.result[1].risk_factors, "Third-party seller")
            <=> (/\ buy.seller # NoSeller
                 /\ Lower(buy.seller) # FirstPartySeller(buy.marketplace))

(* C26: when none is returned for two observations of positive total cost  *)
(* and non-negative prices and shipping costs, the other direction (buy    *)
(* on the side that was not chosen, sell on the chosen one, with the fees  *)
(* of a sale on Amazon when that is where it sells) has a margin below the *)
(* threshold too.                                                          *)
C26_OtherDirectionNoBetter ==
    (/\ Returned
     /\ BothPresent
     /\ call.result = None
     /\ \A i \in 1..2 : /\ call.args[i][1].price >= 0
                        /\ call.args[i][1].shipping >= 0
                        /\ total_cost(call.args[i][1]) > 0) =>
        LET buy == call.locals[1].sell_price
            sell == call.locals[1].buy_price
            fees == IF sell.marketplace = "amazon" THEN sell.price * AmazonSellerFeePct ELSE 0
            net == (sell.price - total_cost(buy)) * 100 - fees
        IN  /\ total_cost(buy) >= total_cost(sell)
            /\ net < MinMarginThreshold * total_cost(buy)

(* None was returned for a pair of positive, different total costs whose   *)
(* cheaper side's total is below the other side's price.                   *)
C26_Witness ==
    /\ Returned
    /\ BothPresent
    /\ call.result = None
    /\ \A i \in 1..2 : /\ call.args[i][1].price >= 0
                       /\ call.args[i][1].shipping >= 0
                       /\ total_cost(call.args[i][1]) > 0
    /\ total_cost(call.locals[1].buy_price) < call.locals[1].sell_price.price

----------------------------------------------------------------------------

(* C24: every scan invoked for a tracked product sets the product's        *)
(* last-scanned time, whatever the outcome of its fetches: a product that  *)
(* is tracked and for which a scan has ended, other than by skipping an    *)
(* untracked product, has a last-scanned time.                             *)
C24_ScanStampsProduct ==
    \A x \in Outcomes :
        (OutcomeAt(x).result # "skipped" /\ OutcomeAt(x).pid \in DOMAIN products_db)
        => products_db[OutcomeAt(x).pid].last_scanned # NoTime

----------------------------------------------------------------------------
(* The place of an opportunity in the registry: scan_product appends, so a *)
(* later place is a later insertion or update.                             *)
PlaceOf(opps, o) == CHOOSE i \in 1..Len(opps) : opps[i] = o

(* C23 as stated: in a query result, of two opportunities of equal margin  *)
(* the one inserted or updated later in the registry comes first.          *)
C23_TiesMostRecentFirst ==
    [][(call' # call /\ call'.fn = "filter_opportunities") =>
          \A j, k \in 1..Len(call'.result) :
              (j < k /\ call'.result[j].margin_pct = call'.result[k].margin_pct)
              => PlaceOf(opportunities_db, call'.result[j])
                    > PlaceOf(opportunities_db, call'.result[k])]_vars

(* C23 amended: in a query result, two opportunities of equal margin keep  *)
(* the order of the registry: the one inserted or updated earlier comes    *)
(* first.                                                                  *)
C23_TiesInRegistryOrder ==
    [][(call' # call /\ call'.fn = "filter_opportunities") =>
          \A j, k \in 1..Len(call'.result) :
              (j < k /\ call'.result[j].margin_pct = call'.result[k].margin_pct)
              => PlaceOf(opportunities_db, call'.result[j])
                    < PlaceOf(opportunities_db, call'.result[k])]_vars

(* A query returned two opportunities of equal margin. *)
C23_Witness ==
    /\ call.fn = "filter_opportunities"
    /\ Len(call.result) = 2
    /\ call.result[1].margin_pct = call.result[2].margin_pct
    /\ call.result[1].product_id # call.result[2].product_id
    /\ call.result = opportunities_db

----------------------------------------------------------------------------
(* The read requests next to the scans: GET /opportunities, GET /stats and *)
(* GET /products/{product_id}/history.  Every handler is a coroutine       *)
(* without an await of its own and runs in one step of the event loop.     *)

(* s[start:] of Python: a negative start counts from the end *)
SliceFrom(s, start) ==
    LET first == IF start < 0 THEN Max(Len(s) + start, 0) ELSE Min(start, Len(s))
    IN  SubSeq(s, first + 1, Len(s))

get_price_history(prices, product_id, limit) ==
    LET local_prices == GetOr(prices, product_id, <<>>)
    IN  SliceFrom(local_prices, 0 - limit)

HistoryLimits == {-1, 0, 1, 3, 50}

GetPriceHistory(product_id, limit) ==
    /\ Tracked(product_id)
    /\ call' = [fn |-> "get_price_history", pc |-> "returned",
                args |-> <<product_id, limit>>,
                locals |-> Some(GetOr(prices_db, product_id, <<>>)),
                result |-> get_price_history(prices_db, product_id, limit)]
    /\ UNCHANGED <<products_db, prices_db, opportunities_db, tasks, deleting, now,
                   next_id, appended, cfg>>

RECURSIVE SumMargins(_)
SumMargins(opps) ==
    IF Len(opps) = 0 THEN 0 ELSE opps[1].margin_pct + SumMargins(Tail(opps))

RECURSIVE MaxMargin(_)
MaxMargin(opps) ==
    IF Len(opps) = 1 THEN opps[1].margin_pct
    ELSE Max(opps[1].margin_pct, MaxMargin(Tail(opps)))

(* Margins are in 1/100 percent, which is what round(x, 2) keeps *)
get_stats ==
    [total_products |-> Cardinality(DOMAIN products_db),
     total_opportunities |-> Len(opportunities_db),
     average_margin_pct |-> IF Len(opportunities_db) > 0
                            THEN RoundHalfEven(SumMargins(opportunities_db),
                                               Len(opportunities_db))
                            ELSE 0,
     best_margin_pct |-> IF Len(opportunities_db) > 0 THEN MaxMargin(opportunities_db)
                         ELSE 0,
     last_updated |-> now]

GetStats ==
    /\ call' = [fn |-> "get_stats", pc |-> "returned", args |-> <<>>,
                locals |-> None, result |-> get_stats]
    /\ UNCHANGED <<products_db, prices_db, opportunities_db, tasks, deleting, now,
                   next_id, appended, cfg>>

ReadsCfg ==
    [maxProducts |-> 1, maxTasks |-> MaxTasks + 1, maxInFlight |-> MaxTasks,
     maxClock |-> 0, maxDeleting |-> 0,
     responses |-> [amazon |-> {Response(TRUE, 7000), Response(TRUE, 2000)},
                    bestbuy |-> {Response(TRUE, 5000)}],
     inputs |-> {ProductInput(AmazonUrl, BestbuyUrl, TRUE)}]

InitReads == InitStores /\ cfg = ReadsCfg /\ call = NoCall

NextReads ==
    \/ \E input \in cfg.inputs : AddProduct(input)
    \/ \E pid \in 1..MaxProducts : TriggerProductScan(pid)
    \/ \E t \in 1..Len(tasks) : ScanStart(t)
    \/ \E t \in 1..Len(tasks), resp \in cfg.responses.amazon, dt \in 0..1 :
          FetchAmazonDone(t, resp, dt)
    \/ \E t \in 1..Len(tasks), resp \in cfg.responses.bestbuy, dt \in 0..1 :
          FetchBestbuyDone(t, resp, dt)
    \/ GetOpportunities(None, None)
    \/ GetStats
    \/ \E pid \in 1..MaxProducts, limit \in HistoryLimits : GetPriceHistory(pid, limit)

SpecReads == InitReads /\ [][NextReads]_vars

(* The step is a request fn that has just returned: a request leaves the   *)
(* tasks and the products alone, any other step changes one of them.       *)
ReadReturned(fn) ==
    call'.fn = fn /\ UNCHANGED <<tasks, products_db>>

OpportunityOf(opps, pid) ==
    LET Same(o) == o.product_id = pid IN SelectSeq(opps, Same)

(* C25: replacing a product's opportunity is atomic with respect to reads. *)
(* No step of a scan takes the opportunity of a tracked product out of the *)
(* registry without putting the replacement in, so the registry never      *)
(* holds the state in between; and a query or statistics request that      *)
(* returns next to the scans reports, for every product that had an        *)
(* opportunity when it ran, exactly one opportunity of that product.       *)
C25_ReplaceAtomicForReads ==
    [][/\ \A pid \in 1..MaxProducts :
            (HasOpportunity(opportunities_db, pid) /\ pid \in DOMAIN products_db')
                => Len(OpportunityOf(opportunities_db', pid)) = 1
       /\ ReadReturned("filter_opportunities")
            => \A pid \in 1..MaxProducts :
                  HasOpportunity(opportunities_db, pid)
                      => Len(OpportunityOf(call'.result, pid)) = 1
       /\ ReadReturned("get_stats")
            => call'.result.total_opportunities
                  = Cardinality({pid \in 1..MaxProducts :
                                    HasOpportunity(opportunities_db, pid)})]_vars

(* A query returned the product's opportunity of one scan, and another     *)
(* scan of the product, run next to the queries, has since replaced it in  *)
(* the registry.                                                           *)
C25_Witness ==
    \E pid \in 1..MaxProducts, t \in 1..Len(tasks) :
        /\ call.fn = "filter_opportunities"
        /\ Len(OpportunityOf(call.result, pid)) = 1
        /\ Len(OpportunityOf(opportunities_db, pid)) = 1
        /\ OpportunityOf(opportunities_db, pid)[1].buy_obs.scan = <<t, 1>>
        /\ OpportunityOf(call.result, pid)[1].buy_obs.scan # <<t, 1>>
        /\ \E u \in 1..Len(tasks) :
              /\ u # t
              /\ OpportunityOf(call.result, pid)[1].buy_obs.scan = <<u, 1>>
              /\ OutLen(tasks, t) = 1 /\ OutLen(tasks, u) = 1

(* C27: for a tracked product and a limit >= 0 the history request returns *)
(* the most recently appended min(limit, history length) observations in   *)
(* append order, and none for limit = 0.                                   *)
C27_HistoryLimit ==
    (call.fn = "get_price_history" /\ call.args[2] >= 0)
        => LET h == call.locals[1]
               n == Min(call.args[2], Len(h))
           IN  call.result = SubSeq(h, Len(h) - n + 1, Len(h))

(* The request with limit = 0 returned the whole, non-empty history *)
C27_LimitZeroReturnsAll ==
    /\ call.fn = "get_price_history"
    /\ call.args[2] = 0
    /\ Len(call.locals[1]) > 0
    /\ call.result = call.locals[1]

----------------------------------------------------------------------------
(* Scans of one product that overlap while time passes: datetime.utcnow is *)
(* read when a fetch has ended, and the clock moves between the fetches.   *)

ClockCfg ==
    [maxProducts |-> 1, maxTasks |-> MaxTasks + 1, maxInFlight |-> MaxTasks,
     maxClock |-> MaxClock, maxDeleting |-> 0,
     responses |-> [amazon |-> {Response(TRUE, 7000)}, bestbuy |-> {Response(TRUE, 5000)}],
     inputs |-> {ProductInput(AmazonUrl, BestbuyUrl, TRUE)}]

InitClock == InitStores /\ cfg = ClockCfg /\ call = NoCall

NextClock ==
    \/ \E input \in cfg.inputs : AddProduct(input)
    \/ \E pid \in 1..MaxProducts : TriggerProductScan(pid)
    \/ \E t \in 1..Len(tasks) : ScanStart(t)
    \/ \E t \in 1..Len(tasks), resp \in cfg.responses.amazon, dt \in 0..1 :
          FetchAmazonDone(t, resp, dt)
    \/ \E t \in 1..Len(tasks), resp \in cfg.responses.bestbuy, dt \in 0..1 :
          FetchBestbuyDone(t, resp, dt)

SpecClock == InitClock /\ [][NextClock]_vars

(* C28: in every reachable state each product's price history is ordered   *)
(* by non-decreasing observation time, also when scans of the product      *)
(* overlap and end in another order than they started.                     *)
C28_HistoryOrderedByTime ==
    \A pid \in DOMAIN prices_db :
        \A i, j \in 1..Len(prices_db[pid]) :
            i < j => prices_db[pid][i].timestamp <= prices_db[pid][j].timestamp

====
